---- MODULE Spec2Model ----
(***************************************************************************)
(* Model of owlculus: the case database manager (cases table + case        *)
(* directories), the client manager (clients table) and the tool runner    *)
(* (worker thread streaming a subprocess into the Run Tools dialog).       *)
(***************************************************************************)
EXTENDS Integers, Sequences, FiniteSets, TLC

(***************************************************************************)
(* Bounds of the model.                                                    *)
(***************************************************************************)
MaxCaseId == 2
MaxClientId == 2

MaxRuns == 2
\* lines the subprocesses write to their standard outputs, all runs together
MaxLines == 1

\* range(1, 100) of setup_case_folder: the last candidate number.
LastCaseIndex == 99

\* The absent argument / NULL column value of Python and SQLite.
None == "<None>"

\* Values of datetime.now().strftime("%y%m") the clock may show, as YYMM.
Months == {2611}

CaseTypes == {"Person", "Company"}

(***************************************************************************)
(* String formatting of the case number.                                   *)
(***************************************************************************)
Digit(d) == <<"0", "1", "2", "3", "4", "5", "6", "7", "8", "9">>[d + 1]

\* str(i) for 0 <= i <= 9999
RECURSIVE Str(_)
Str(i) == IF i < 10 THEN Digit(i) ELSE Str(i \div 10) \o Digit(i % 10)

\* str(i).zfill(2)
zfill2(i) == IF i < 10 THEN "0" \o Str(i) ELSE Str(i)

\* strftime("%y%m") of a clock reading given as the number YYMM
strftime_ym(date) == zfill2(date \div 100) \o zfill2(date % 100)

\* f"{date}-{str(i).zfill(2)}"
CaseNumberOf(date, i) == strftime_ym(date) \o "-" \o zfill2(i)

\* Case numbers and folder names a caller may pass to rename_case and
\* delete_case: numbers of the format, the empty string, a free-form name.
Names ==
    {CaseNumberOf(2611, 1), CaseNumberOf(2611, 2), "", "Alpha"}

\* name arguments of add_client and update_client
ClientNames == {"", "Acme"}

\* point_of_contact, phone_number and email arguments
NewFieldArgs == {"a"}
UpdFieldArgs == {None, "b"}

\* case_name arguments of setup_case_folder
CaseNameArgs == {None, "", "Alpha"}

\* client arguments of setup_case_folder (NewCaseDialog.get_values)
ClientArgs == {""}

VARIABLES
    cases,          \* rows of the cases table
    next_case_id,   \* AUTOINCREMENT sequence of cases.id
    dirs,           \* directories directly under base_path
    base_exists,    \* whether base_path exists (setup_case_folder creates it)
    clients,        \* rows of the clients table
    next_client_id, \* AUTOINCREMENT sequence of clients.id
    last,           \* the database-manager call of the last step and its outcome
    run,            \* per started run: its ToolRunner, worker thread and subprocess
    nruns,          \* number of RunToolThread objects started so far
    thread,         \* RunToolsDialog.thread (0: attribute not set)
    sigq,           \* signals emitted by workers, queued for the GUI thread
    status_label,   \* RunToolsDialog.status_label text after "Status: "
    progress_bar,   \* RunToolsDialog.progress_bar value
    output_text,    \* RunToolsDialog.output_text lines
    case_table,     \* MainGui.table: the rows shown, top to bottom
    connections,    \* connections of MainGui.table.itemChanged to handle_item_changed
    client_table,   \* ClientManager.table: the rows shown, top to bottom
    ui,             \* the last user action on a window and what became of it
    config,         \* what config.yaml holds, if it is there
    app,            \* the application process: how far its start-up has come
    dialog,         \* the Run Tools dialog window: open or closed
    callers         \* add_client calls under way in ClientManager objects

case_vars == <<cases, next_case_id, dirs, base_exists>>
client_vars == <<clients, next_client_id>>
tool_vars == <<run, nruns, thread, sigq, status_label, progress_bar, output_text>>
gui_vars == <<case_table, connections, client_table, ui>>
app_vars == <<config, app, dialog>>
\* what the windows show and the application's own state
view_vars == <<gui_vars, app_vars, callers>>
\* the tables, the folders, the tool runs and what the windows show
data_vars == <<case_vars, client_vars, tool_vars, last, gui_vars, callers>>
vars == <<cases, next_case_id, dirs, base_exists, clients, next_client_id, last,
          run, nruns, thread, sigq, status_label, progress_bar, output_text,
          case_table, connections, client_table, ui, config, app, dialog, callers>>

NoCall ==
    [op |-> "none", cn |-> "", cn2 |-> "", date |-> 0, id |-> 0, name |-> "",
     res |-> "", n |-> 0]

(***************************************************************************)
(* SQL statements on the cases table.                                      *)
(***************************************************************************)
\* SELECT * FROM cases WHERE case_number = ? ; bool(fetchone())
case_number_exists(rows, case_number) ==
    \E r \in rows : r.case_number = case_number

\* case_number TEXT UNIQUE NOT NULL
CasesUniqueOK(rows) ==
    \A r1, r2 \in rows : r1.case_number = r2.case_number => r1.id = r2.id

\* INSERT INTO cases (case_number, case_type, client_id, created_at)
InsertCase(rows, id, case_number, case_type, client, created_at) ==
    LET new == rows \cup {[id |-> id, case_number |-> case_number,
                           case_type |-> case_type, client_id |-> client,
                           created_at |-> created_at]}
    IN  IF CasesUniqueOK(new) THEN [ok |-> TRUE, rows |-> new]
        ELSE [ok |-> FALSE, rows |-> rows]

\* UPDATE cases SET case_number = ? WHERE case_number = ?
UpdateCaseNumber(rows, old, new) ==
    LET hit == {r \in rows : r.case_number = old}
        upd == {[r EXCEPT !.case_number = new] : r \in hit} \cup (rows \ hit)
    IN  IF CasesUniqueOK(upd) THEN [ok |-> TRUE, rows |-> upd, rowcount |-> Cardinality(hit)]
        ELSE [ok |-> FALSE, rows |-> rows, rowcount |-> 0]

\* DELETE FROM cases WHERE case_number = ?
DeleteCaseRows(rows, case_number) ==
    {r \in rows : r.case_number # case_number}

(***************************************************************************)
(* The filesystem under base_path.  A directory is a record of its name    *)
(* and of the case (row id) whose setup created it.                        *)
(***************************************************************************)
DirNames == {d.name : d \in dirs}

\* Path(base_path) / name : joining the empty string gives base_path itself
IsBasePath(name) == name = ""

\* (base_path / name).exists()
PathExists(name) ==
    IF IsBasePath(name) THEN base_exists ELSE base_exists /\ name \in DirNames

\* FirstFreeIndex with the number taken from the row count instead of searched
FirstFreeIndex_ByCount(rows, date, i) ==
    IF Cardinality(rows) + 1 > LastCaseIndex THEN 0 ELSE Cardinality(rows) + 1

\* the for loop without its else clause: after the last round i is still 99
RECURSIVE FirstFreeIndex_NoElse(_, _, _)
FirstFreeIndex_NoElse(rows, date, i) ==
    IF i >= LastCaseIndex THEN LastCaseIndex
    ELSE IF ~case_number_exists(rows, CaseNumberOf(date, i)) THEN i
    ELSE FirstFreeIndex_NoElse(rows, date, i + 1)

\* the for loop of setup_case_folder: the first i in i..99 whose number is
\* not in the table, or 0 when the loop runs to its else branch
RECURSIVE FirstFreeIndex(_, _, _)
FirstFreeIndex(rows, date, i) ==
    IF i > LastCaseIndex THEN 0
    ELSE IF ~case_number_exists(rows, CaseNumberOf(date, i)) THEN i
    ELSE FirstFreeIndex(rows, date, i + 1)

(***************************************************************************)
(* CaseDatabaseManager operations.                                         *)
(***************************************************************************)
\* COMMON_FOLDERS and SOCIAL_MEDIA_FOLDERS: sorted lists of folder names
COMMON_FOLDERS == <<"Associates", "Audio", "Documents", "Other", "Social_Media">>

SOCIAL_MEDIA_FOLDERS ==
    <<"Discord", "Facebook", "Instagram", "LinkedIn", "Reddit", "Signal",
      "Snapchat", "Telegram", "TikTok", "Twitter", "WhatsApp", "YouTube">>

\* the elements of a list
Range(s) == {s[k] : k \in DOMAIN s}

\* folders.extend(sorted(["Domains", "Executives", "Network"])) for every type
CaseFolders_CompanyForAll(case_type) ==
    COMMON_FOLDERS \o <<"Domains", "Executives", "Network">>

\* folders = COMMON_FOLDERS.copy(), extended for the case type Company only
CaseFolders(case_type) ==
    IF case_type = "Person" THEN COMMON_FOLDERS
    ELSE IF case_type = "Company"
    THEN COMMON_FOLDERS \o <<"Domains", "Executives", "Network">>
    ELSE COMMON_FOLDERS

\* the case folder after the mkdir calls of setup_case_folder: its name, the
\* case whose setup made it, its subfolders, the subfolders of Social_Media
NewCaseFolder(folder, id, case_type) ==
    [name |-> folder, owner |-> id,
     folders |-> Range(CaseFolders(case_type)),
     social |-> IF "Social_Media" \in Range(CaseFolders(case_type))
                THEN Range(SOCIAL_MEDIA_FOLDERS) ELSE {}]

\* datetime.now().strftime("%Y-%m-%d %H:%M:%S") at the INSERT: a time of the
\* month `date`, later for every later case
Now(date) == date * 100 + next_case_id

\* every number 01..99 of the month is in the table
MonthFull(rows, date) ==
    /\ Cardinality(rows) >= LastCaseIndex
    /\ {CaseNumberOf(date, i) : i \in 1..LastCaseIndex} \subseteq {r.case_number : r \in rows}

\* MaxCaseId bounds the row ids given out; a call in a month whose numbers
\* are used up is to give none out
setup_case_folder(case_name, case_type, client, date) ==
    /\ next_case_id <= MaxCaseId \/ MonthFull(cases, date)
    /\ LET i == FirstFreeIndex(cases, date, 1)
           case_number == CaseNumberOf(date, i)
           ins == InsertCase(cases, next_case_id, case_number, case_type, client,
                             Now(date))
           folder == IF case_name # None /\ case_name # "" THEN case_name ELSE case_number
           call == [NoCall EXCEPT !.op = "setup_case_folder", !.cn2 = case_name,
                                  !.date = date]
       IN  IF i = 0
           THEN /\ last' = [call EXCEPT !.res = "no_number"]
                /\ UNCHANGED case_vars
           ELSE IF ~ins.ok
           THEN /\ last' = [call EXCEPT !.res = "IntegrityError"]
                /\ UNCHANGED case_vars
           ELSE /\ cases' = ins.rows
                /\ next_case_id' = next_case_id + 1
                /\ base_exists' = TRUE
                /\ IF PathExists(folder)
                   THEN /\ dirs' = dirs
                        /\ last' = [call EXCEPT !.cn = case_number, !.id = next_case_id,
                                                !.res = "FileExistsError"]
                   ELSE /\ dirs' = dirs \cup {NewCaseFolder(folder, next_case_id, case_type)}
                        /\ last' = [call EXCEPT !.cn = case_number, !.id = next_case_id,
                                                !.res = "created"]
    /\ UNCHANGED <<client_vars, tool_vars>>

delete_case(case_number) ==
    /\ cases' = DeleteCaseRows(cases, case_number)
    /\ IF PathExists(case_number)
       THEN IF IsBasePath(case_number)
            THEN dirs' = {} /\ base_exists' = FALSE
            ELSE dirs' = {d \in dirs : d.name # case_number} /\ base_exists' = base_exists
       ELSE UNCHANGED <<dirs, base_exists>>
    /\ last' = [NoCall EXCEPT !.op = "delete_case", !.cn = case_number,
                              !.n = Cardinality(cases \ DeleteCaseRows(cases, case_number)),
                              !.res = "ok"]
    /\ UNCHANGED <<next_case_id, client_vars, tool_vars>>

\* old_case_folder_path.rename(new_case_folder_path) when the old path exists:
\* the directories afterwards, or the names unchanged and an OSError when the
\* target is an existing non-empty directory or lies inside the source
RenamePath(old, new) ==
    IF old = new THEN [ok |-> TRUE, dirs |-> dirs]
    ELSE IF IsBasePath(old) \/ PathExists(new) THEN [ok |-> FALSE, dirs |-> dirs]
    ELSE [ok |-> TRUE,
          dirs |-> {IF d.name = old THEN [d EXCEPT !.name = new] ELSE d : d \in dirs}]

\* rename_case without the existence check: the UNIQUE column alone refuses
rename_case_NoCheck(old_case_number, new_case_number) ==
    /\ LET call == [NoCall EXCEPT !.op = "rename_case", !.cn = old_case_number,
                                  !.cn2 = new_case_number]
           upd == UpdateCaseNumber(cases, old_case_number, new_case_number)
           mv == RenamePath(old_case_number, new_case_number)
       IN  IF ~upd.ok
           THEN /\ last' = [call EXCEPT !.res = "IntegrityError"]
                /\ UNCHANGED <<cases, dirs>>
           ELSE /\ cases' = upd.rows
                /\ dirs' = IF PathExists(old_case_number) THEN mv.dirs ELSE dirs
                /\ last' = [call EXCEPT !.n = upd.rowcount,
                               !.res = IF ~PathExists(old_case_number) \/ mv.ok
                                       THEN "ok" ELSE "OSError"]
    /\ UNCHANGED <<next_case_id, base_exists, client_vars, tool_vars>>

\* rename_case without the existence check, on a column without UNIQUE
rename_case_Unchecked(old_case_number, new_case_number) ==
    /\ LET call == [NoCall EXCEPT !.op = "rename_case", !.cn = old_case_number,
                                  !.cn2 = new_case_number]
           hit == {r \in cases : r.case_number = old_case_number}
           mv == RenamePath(old_case_number, new_case_number)
       IN  /\ cases' = (cases \ hit)
                        \cup {[r EXCEPT !.case_number = new_case_number] : r \in hit}
           /\ dirs' = IF PathExists(old_case_number) THEN mv.dirs ELSE dirs
           /\ last' = [call EXCEPT !.n = Cardinality(hit),
                                   !.res = IF ~PathExists(old_case_number) \/ mv.ok
                                           THEN "ok" ELSE "OSError"]
    /\ UNCHANGED <<next_case_id, base_exists, client_vars, tool_vars>>

rename_case(old_case_number, new_case_number) ==
    /\ LET call == [NoCall EXCEPT !.op = "rename_case", !.cn = old_case_number,
                                  !.cn2 = new_case_number]
           upd == UpdateCaseNumber(cases, old_case_number, new_case_number)
           mv == RenamePath(old_case_number, new_case_number)
       IN  IF case_number_exists(cases, new_case_number)
           THEN /\ last' = [call EXCEPT !.res = "ValueError"]
                /\ UNCHANGED <<cases, dirs>>
           ELSE IF ~upd.ok
           THEN /\ last' = [call EXCEPT !.res = "IntegrityError"]
                /\ UNCHANGED <<cases, dirs>>
           ELSE /\ cases' = upd.rows
                /\ IF PathExists(old_case_number)
                   THEN /\ dirs' = mv.dirs
                        /\ last' = [call EXCEPT !.n = upd.rowcount,
                                       !.res = IF mv.ok THEN "ok" ELSE "OSError"]
                   ELSE /\ dirs' = dirs
                        /\ last' = [call EXCEPT !.n = upd.rowcount, !.res = "ok"]
    /\ UNCHANGED <<next_case_id, base_exists, client_vars, tool_vars>>

\* rename_case as a function of the table and the directories it finds:
\* the outcome, the table and the directories afterwards, the row count
RenameCase(rows, ds, old_case_number, new_case_number) ==
    LET upd == UpdateCaseNumber(rows, old_case_number, new_case_number)
        exists(name) == IF IsBasePath(name) THEN base_exists
                        ELSE base_exists /\ \E d \in ds : d.name = name
        moved == {IF d.name = old_case_number THEN [d EXCEPT !.name = new_case_number]
                  ELSE d : d \in ds}
        mv_ok == old_case_number = new_case_number
                    \/ ~(IsBasePath(old_case_number) \/ exists(new_case_number))
    IN  IF case_number_exists(rows, new_case_number)
        THEN [res |-> "ValueError", cases |-> rows, dirs |-> ds, n |-> 0]
        ELSE IF ~upd.ok
        THEN [res |-> "IntegrityError", cases |-> rows, dirs |-> ds, n |-> 0]
        ELSE IF ~exists(old_case_number)
        THEN [res |-> "ok", cases |-> upd.rows, dirs |-> ds, n |-> upd.rowcount]
        ELSE IF mv_ok
        THEN [res |-> "ok", cases |-> upd.rows,
              dirs |-> IF old_case_number = new_case_number THEN ds ELSE moved,
              n |-> upd.rowcount]
        ELSE [res |-> "OSError", cases |-> upd.rows, dirs |-> ds, n |-> upd.rowcount]

\* CaseDatabaseManager.update_client(case_number, new_client):
\* UPDATE cases SET client = ? WHERE case_number = ?  on a table whose columns
\* are id, case_number, case_type, client_id, created_at; the statement names
\* no column of the table and sqlite3 refuses it
CaseDatabaseManager_update_client(case_number, new_client) ==
    /\ last' = [NoCall EXCEPT !.op = "CaseDatabaseManager.update_client",
                              !.cn = case_number, !.name = new_client,
                              !.res = "OperationalError"]
    /\ UNCHANGED <<case_vars, client_vars, tool_vars>>

(***************************************************************************)
(* ClientManager operations on the clients table.                          *)
(***************************************************************************)
\* SELECT * FROM clients WHERE name = ? ; fetchone() is not None
client_exists(rows, name) ==
    \E r \in rows : r.name = name

\* Python truthiness of an optional string argument: `if name`
Truthy(s) == s # None /\ s # ""

add_client(name, point_of_contact, phone_number, email) ==
    /\ next_client_id <= MaxClientId
    /\ LET call == [NoCall EXCEPT !.op = "add_client", !.name = name]
       IN  IF client_exists(clients, name)
           THEN /\ last' = [call EXCEPT !.res = "ValueError"]
                /\ UNCHANGED client_vars
           ELSE /\ clients' = clients \cup
                       {[id |-> next_client_id, name |-> name,
                         point_of_contact |-> point_of_contact,
                         phone_number |-> phone_number, email |-> email]}
                /\ next_client_id' = next_client_id + 1
                /\ last' = [call EXCEPT !.id = next_client_id, !.res = "ok"]
    /\ UNCHANGED <<case_vars, tool_vars>>

\* the row after an UPDATE that sets all four columns, given or not
SetProvided_AllColumns(r, name, point_of_contact, phone_number, email) ==
    [id |-> r.id, name |-> name, point_of_contact |-> point_of_contact,
     phone_number |-> phone_number, email |-> email]

\* the row after UPDATE clients SET <the provided columns> WHERE id = ?
SetProvided(r, name, point_of_contact, phone_number, email) ==
    [id |-> r.id,
     name |-> IF name # None THEN name ELSE r.name,
     point_of_contact |-> IF point_of_contact # None THEN point_of_contact
                          ELSE r.point_of_contact,
     phone_number |-> IF phone_number # None THEN phone_number ELSE r.phone_number,
     email |-> IF email # None THEN email ELSE r.email]

update_client(client_id, name, point_of_contact, phone_number, email) ==
    /\ LET call == [NoCall EXCEPT !.op = "update_client", !.id = client_id,
                                  !.name = name]
       IN  IF Truthy(name) /\ client_exists(clients, name)
           THEN /\ last' = [call EXCEPT !.res = "ValueError"]
                /\ UNCHANGED client_vars
           ELSE IF name = None /\ point_of_contact = None /\ phone_number = None
                   /\ email = None
           THEN \* "UPDATE clients SET  WHERE id = ?" is a syntax error
                /\ last' = [call EXCEPT !.res = "OperationalError"]
                /\ UNCHANGED client_vars
           ELSE /\ clients' =
                       {IF r.id = client_id
                        THEN SetProvided(r, name, point_of_contact, phone_number, email)
                        ELSE r : r \in clients}
                /\ next_client_id' = next_client_id
                /\ last' = [call EXCEPT !.res = "ok"]
    /\ UNCHANGED <<case_vars, tool_vars>>

delete_client(client_id) ==
    /\ clients' = {r \in clients : r.id # client_id}
    /\ last' = [NoCall EXCEPT !.op = "delete_client", !.id = client_id, !.res = "ok"]
    /\ UNCHANGED <<next_client_id, case_vars, tool_vars>>

(***************************************************************************)
(* add_client in steps.  Two ClientManager objects, of one application or  *)
(* of two, work on the same clients.db; every statement runs on a          *)
(* connection of its own and SQLite runs the statements one at a time.     *)
(***************************************************************************)
Callers == 1..2

\* no call of add_client under way
NoAddClient == [pc |-> "idle", name |-> "", found |-> FALSE]

\* add_client up to the test: client_exists(name) has returned
AddClientCheck(c, name) ==
    /\ callers[c].pc = "idle"
    /\ callers' = [callers EXCEPT ![c] = [pc |-> "checked", name |-> name,
                                          found |-> client_exists(clients, name)]]
    /\ UNCHANGED <<client_vars, last>>

\* the rest of add_client: the ValueError when the test found the name, the
\* INSERT and the commit when it did not
AddClientFinish(c, point_of_contact, phone_number, email) ==
    /\ callers[c].pc = "checked"
    /\ LET name == callers[c].name
           call == [NoCall EXCEPT !.op = "add_client", !.name = name]
       IN  IF callers[c].found
           THEN /\ last' = [call EXCEPT !.res = "ValueError"]
                /\ UNCHANGED client_vars
           ELSE /\ next_client_id <= MaxClientId
                /\ clients' = clients \cup
                       {[id |-> next_client_id, name |-> name,
                         point_of_contact |-> point_of_contact,
                         phone_number |-> phone_number, email |-> email]}
                /\ next_client_id' = next_client_id + 1
                /\ last' = [call EXCEPT !.id = next_client_id, !.res = "ok"]
    /\ callers' = [callers EXCEPT ![c] = NoAddClient]

(***************************************************************************)
(* Tool runner: ToolRunner, RunToolThread and RunToolsDialog.              *)
(* A line is the sequence of its characters, as readline returns it.       *)
(***************************************************************************)
RunIds == 1..MaxRuns

\* the k-th line the tool writes to its standard output
ToolOutput(k) == IF k % 2 = 1 THEN <<" ", "p", "\n">> ELSE <<"h", "\n">>

Whitespace == {" ", "\n"}

RECURSIVE lstrip(_)
lstrip(l) ==
    IF l # <<>> /\ Head(l) \in Whitespace THEN lstrip(Tail(l)) ELSE l

RECURSIVE rstrip(_)
rstrip(l) ==
    IF l # <<>> /\ l[Len(l)] \in Whitespace THEN rstrip(SubSeq(l, 1, Len(l) - 1)) ELSE l

\* output.strip()
strip(l) == rstrip(lstrip(l))

\* a run before on_run_button_clicked has created it
NoRun ==
    [pc |-> "none", cancelled |-> FALSE, proc |-> "none", terminate_called |-> FALSE,
     pipe |-> <<>>, written |-> 0, cur |-> <<>>, relayed |-> <<>>]

\* QThread.isRunning(): from start() until run() has returned
isRunning(r) == run[r].pc \notin {"none", "done"}

Emit(sig, arg) == Append(sigq, [sig |-> sig, arg |-> arg])

dialog_vars == <<status_label, progress_bar, output_text>>

\* ToolRunner(selected_case); RunToolThread(...); connect; thread.start()
on_run_button_clicked ==
    /\ nruns < MaxRuns
    /\ nruns' = nruns + 1
    /\ thread' = nruns + 1
    /\ run' = [run EXCEPT ![nruns + 1] = [NoRun EXCEPT !.pc = "start"]]
    /\ UNCHANGED <<sigq, dialog_vars, case_vars, client_vars, last>>

on_cancel_button_clicked ==
    /\ IF thread # 0 /\ isRunning(thread)
       THEN /\ run' = [run EXCEPT ![thread].cancelled = TRUE]
            /\ status_label' = "Cancelled"
            /\ progress_bar' = 0
       ELSE UNCHANGED <<run, status_label, progress_bar>>
    /\ UNCHANGED <<nruns, thread, sigq, output_text, case_vars, client_vars, last>>

\* the GUI event loop runs the slot of the oldest queued signal:
\* update_status, update_output or tool_completed
DeliverSignal ==
    /\ sigq # <<>>
    /\ sigq' = Tail(sigq)
    /\ LET s == Head(sigq)
       IN  CASE s.sig = "status" ->
                  /\ status_label' = s.arg
                  /\ UNCHANGED <<progress_bar, output_text>>
             [] s.sig = "output" ->
                  /\ output_text' = Append(output_text, s.arg)
                  /\ UNCHANGED <<status_label, progress_bar>>
             [] s.sig = "completed" ->
                  /\ status_label' = "Completed"
                  /\ progress_bar' = 100
                  /\ UNCHANGED output_text
    /\ UNCHANGED <<run, nruns, thread, case_vars, client_vars, last>>

\* RunToolThread.run up to the first readline: status_signal.emit("Running"),
\* run_tool, and the head of _execute_command, subprocess.Popen(...)
WorkerStart(r) ==
    /\ run[r].pc = "start"
    /\ sigq' = Emit("status", "Running")
    /\ run' = [run EXCEPT ![r].pc = "readline", ![r].proc = "running"]

\* process.stdout.readline(): a line of the pipe, or '' at end of file;
\* blocks while the pipe is empty and the subprocess holds it open
WorkerReadline(r) ==
    /\ run[r].pc = "readline"
    /\ IF run[r].pipe # <<>>
       THEN run' = [run EXCEPT ![r].cur = Head(run[r].pipe),
                               ![r].pipe = Tail(run[r].pipe),
                               ![r].pc = "check"]
       ELSE /\ run[r].proc \in {"exited", "terminated"}
            /\ run' = [run EXCEPT ![r].pc = "after_loop"]
    /\ UNCHANGED sigq

\* CheckCancelled with the break left out: the line is yielded all the same
CheckCancelled_NoBreak(r) ==
    IF run[r].cancelled
    THEN [run EXCEPT ![r].pc = "yield", ![r].terminate_called = TRUE,
                     ![r].proc = IF run[r].proc \in {"running", "blocked"}
                                 THEN "terminated" ELSE run[r].proc]
    ELSE [run EXCEPT ![r].pc = "yield"]

\* if self.cancelled: process.terminate(); break
CheckCancelled(r) ==
    IF run[r].cancelled
    THEN [run EXCEPT ![r].pc = "after_loop", ![r].terminate_called = TRUE,
                     ![r].proc = IF run[r].proc \in {"running", "blocked"}
                                 THEN "terminated" ELSE run[r].proc]
    ELSE [run EXCEPT ![r].pc = "yield"]

WorkerCheck(r) ==
    /\ run[r].pc = "check"
    /\ run' = CheckCancelled(r)
    /\ UNCHANGED sigq

\* WorkerYield with the line emitted twice
WorkerYield_Twice(r) ==
    /\ run[r].pc = "yield"
    /\ sigq' = Append(Emit("output", strip(run[r].cur)),
                      [sig |-> "output", arg |-> strip(run[r].cur)])
    /\ run' = [run EXCEPT ![r].pc = "readline",
                           ![r].relayed = Append(Append(run[r].relayed, strip(run[r].cur)),
                                                 strip(run[r].cur))]

\* yield output.strip(); self.output_signal.emit(line)
WorkerYield(r) ==
    /\ run[r].pc = "yield"
    /\ sigq' = Emit("output", strip(run[r].cur))
    /\ run' = [run EXCEPT ![r].pc = "readline",
                           ![r].relayed = Append(run[r].relayed, strip(run[r].cur))]

\* if not self.tool_runner.cancelled:
WorkerAfterLoop(r) ==
    /\ run[r].pc = "after_loop"
    /\ run' = [run EXCEPT ![r].pc = IF run[r].cancelled THEN "done" ELSE "emit_completed"]
    /\ UNCHANGED sigq

\* self.completed_signal.emit(); run() returns
WorkerCompleted(r) ==
    /\ run[r].pc = "emit_completed"
    /\ sigq' = Emit("completed", <<>>)
    /\ run' = [run EXCEPT ![r].pc = "done"]

WorkerStep(r) ==
    /\ \/ WorkerStart(r)
       \/ WorkerReadline(r)
       \/ WorkerCheck(r)
       \/ WorkerYield(r)
       \/ WorkerAfterLoop(r)
       \/ WorkerCompleted(r)
    /\ UNCHANGED <<nruns, thread, dialog_vars, case_vars, client_vars, last>>

\* The spawned subprocess.  stdout=PIPE is drained by the worker; stderr=PIPE
\* is never read, so a write to a full stderr pipe blocks for good.
\* lines written so far by the subprocesses of the runs in S
RECURSIVE TotalWritten(_)
TotalWritten(S) ==
    IF S = {} THEN 0
    ELSE LET r == CHOOSE x \in S : TRUE IN run[r].written + TotalWritten(S \ {r})

ProcWriteLine(r) ==
    /\ run[r].proc = "running"
    /\ TotalWritten(RunIds) < MaxLines
    /\ run' = [run EXCEPT ![r].pipe = Append(run[r].pipe, ToolOutput(run[r].written + 1)),
                           ![r].written = run[r].written + 1]

\* the tool writes more to stderr than the pipe holds
ProcBlockOnStderr(r) ==
    /\ run[r].proc = "running"
    /\ run' = [run EXCEPT ![r].proc = "blocked"]

ProcExit(r) ==
    /\ run[r].proc = "running"
    /\ run' = [run EXCEPT ![r].proc = "exited"]

ProcStep(r) ==
    /\ \/ ProcWriteLine(r)
       \/ ProcBlockOnStderr(r)
       \/ ProcExit(r)
    /\ UNCHANGED <<nruns, thread, sigq, dialog_vars, case_vars, client_vars, last>>

(***************************************************************************)
(* MainGui: the case table and its handlers.                               *)
(***************************************************************************)
\* connections of itemChanged up to which the model follows cell edits
MaxConnections == 2

NoEvent ==
    [ev |-> "none", row |-> 0, col |-> 0, text |-> "", shown |-> "", passed |-> "",
     calls |-> 0, warnings |-> 0, reloaded |-> FALSE, exc |-> ""]

\* an uncaught exception in a slot ends the application
Alive == ui.exc = ""

Reverse(s) == [k \in 1..Len(s) |-> s[Len(s) + 1 - k]]

\* SELECT * FROM cases ; fetchall(): the rows in rowid order
list_cases(rows) ==
    LET ids == {r.id : r \in rows}
        nth(k) == CHOOSE r \in rows : Cardinality({i \in ids : i < r.id}) = k - 1
    IN  [k \in 1..Cardinality(rows) |-> nth(k)]

\* display_cases: the table refilled from list_cases and sorted by "Created"
\* ascending, which is the order of list_cases since created_at grows with id
display_cases(rows) ==
    LET lc == list_cases(rows)
    IN  [k \in 1..Len(lc) |-> [id |-> lc[k].id, number |-> lc[k].case_number,
                               client |-> lc[k].client_id]]

\* The state a run of slots works on: the table on disk, the directories,
\* the rows shown, the connections, and what has happened so far.
SlotState(ev) ==
    [cases |-> cases, dirs |-> dirs, table |-> case_table, conn |-> connections,
     call |-> NoCall, ev |-> ev]

\* MainGui.handle_item_changed(item) and itemChanged.emit(item): the signal
\* runs the slot once per connection made before the emission; a slot that
\* resets the text to another value emits the signal from within
RECURSIVE handle_item_changed(_, _, _), EmitItemChanged(_, _, _, _)
handle_item_changed(S, row, column) ==
    IF S.ev.exc # "" THEN S
    ELSE IF row > Cardinality(S.cases)
    THEN [S EXCEPT !.ev.exc = "IndexError"]
    ELSE LET case_number == list_cases(S.cases)[row].case_number
             text == IF column = 0 THEN S.table[row].number ELSE S.table[row].client
             seen == [S.ev EXCEPT !.calls = @ + 1,
                                  !.passed = IF @ = "" /\ S.ev.calls = 0
                                             THEN case_number ELSE @]
         IN  IF column = 0
             THEN LET r == RenameCase(S.cases, S.dirs, case_number, text)
                      call == [NoCall EXCEPT !.op = "rename_case", !.cn = case_number,
                                             !.cn2 = text, !.res = r.res, !.n = r.n]
                      T == [S EXCEPT !.cases = r.cases, !.dirs = r.dirs, !.call = call,
                                     !.ev = seen]
                  IN  IF r.res = "ValueError"
                      THEN LET W == [T EXCEPT !.ev.warnings = @ + 1,
                                              !.table[row].number = case_number]
                               N == IF text = case_number THEN W
                                    ELSE EmitItemChanged(W, row, column, W.conn)
                           IN  IF N.ev.exc # "" THEN N ELSE [N EXCEPT !.conn = @ + 1]
                      ELSE IF r.res = "ok"
                      THEN [T EXCEPT !.conn = @ + 1]
                      ELSE [T EXCEPT !.ev.exc = r.res]
             ELSE [S EXCEPT !.ev = [seen EXCEPT !.exc = "OperationalError"],
                            !.call = [NoCall EXCEPT
                                         !.op = "CaseDatabaseManager.update_client",
                                         !.cn = case_number, !.name = text,
                                         !.res = "OperationalError"]]

EmitItemChanged(S, row, column, n) ==
    IF n = 0 THEN S
    ELSE EmitItemChanged(handle_item_changed(S, row, column), row, column, n - 1)

\* the user commits an edit of the cell (row, column) of the case table;
\* CustomTableWidget.edit lets columns 0 and 2 be edited
EditCaseCell(row, column, text) ==
    /\ Alive
    /\ connections <= MaxConnections
    /\ row \in 1..Len(case_table)
    /\ column \in {0, 2}
    /\ text # (IF column = 0 THEN case_table[row].number ELSE case_table[row].client)
    /\ LET shown == case_table[row].number
           ev == [NoEvent EXCEPT !.ev = "edit_case", !.row = row, !.col = column,
                                 !.text = text, !.shown = shown]
           typed == IF column = 0 THEN [case_table EXCEPT ![row].number = text]
                    ELSE [case_table EXCEPT ![row].client = text]
           S == EmitItemChanged([SlotState(ev) EXCEPT !.table = typed],
                                row, column, connections)
       IN  /\ cases' = S.cases
           /\ dirs' = S.dirs
           /\ case_table' = S.table
           /\ connections' = S.conn
           /\ ui' = S.ev
           /\ last' = S.call
    /\ UNCHANGED <<next_case_id, base_exists, client_table, client_vars, tool_vars>>

\* a click on the header of the "Created" column, the sort column since
\* display_cases: the order is toggled and, no two rows having the same
\* created_at, the rows are turned around
SortByCreatedClicked ==
    /\ Alive
    /\ Len(case_table) >= 2
    /\ case_table' = Reverse(case_table)
    /\ ui' = [NoEvent EXCEPT !.ev = "sort"]
    /\ last' = NoCall
    /\ UNCHANGED <<connections, client_table, case_vars, client_vars, tool_vars>>

\* MainGui.create_case: the dialog accepted; NewCaseDialog.get_values gives
\* the type and the text of the client combo box
create_case(case_type, client, date) ==
    /\ Alive
    /\ setup_case_folder(None, case_type, client, date)
    /\ ui' = [NoEvent EXCEPT !.ev = "create_case",
                             !.exc = IF last'.res \in {"created", "no_number"}
                                     THEN "" ELSE last'.res]
    /\ case_table' = IF ui'.exc = "" THEN display_cases(cases') ELSE case_table
    /\ UNCHANGED <<connections, client_table>>

\* MainGui.delete_case without the question: the case goes whatever the answer
MainGui_delete_case_NoQuestion(row, confirm) ==
    /\ Alive
    /\ row \in 1..Len(case_table)
    /\ delete_case(case_table[row].number)
    /\ case_table' = display_cases(cases')
    /\ ui' = [NoEvent EXCEPT !.ev = "delete_case", !.row = row,
                             !.shown = case_table[row].number,
                             !.calls = IF confirm THEN 1 ELSE 0]
    /\ UNCHANGED <<connections, client_table>>

\* MainGui.delete_case: the row selected, the question answered
MainGui_delete_case(row, confirm) ==
    /\ Alive
    /\ row \in 1..Len(case_table)
    /\ IF confirm
       THEN /\ delete_case(case_table[row].number)
            /\ case_table' = display_cases(cases')
       ELSE /\ last' = NoCall
            /\ UNCHANGED <<case_vars, client_vars, tool_vars, case_table>>
    /\ ui' = [NoEvent EXCEPT !.ev = "delete_case", !.row = row,
                             !.shown = case_table[row].number,
                             !.calls = IF confirm THEN 1 ELSE 0]
    /\ UNCHANGED <<connections, client_table>>

\* texts a user types into a cell of the case table
CellTexts == Names

CaseGuiNext ==
    \/ \E case_type \in CaseTypes, client \in ClientArgs, date \in Months :
          app.main_shown /\ create_case(case_type, client, date) /\ UNCHANGED <<app_vars, callers>>
    \/ \E row \in 1..MaxCaseId, confirm \in BOOLEAN :
          app.main_shown /\ MainGui_delete_case(row, confirm) /\ UNCHANGED <<app_vars, callers>>
    \/ app.main_shown /\ SortByCreatedClicked /\ UNCHANGED <<app_vars, callers>>
    \/ \E row \in 1..MaxCaseId, column \in {0, 2}, text \in CellTexts :
          app.main_shown /\ EditCaseCell(row, column, text) /\ UNCHANGED <<app_vars, callers>>

(***************************************************************************)
(* NewClientDialog and the table of ClientManager.                         *)
(***************************************************************************)
\* texts a user types into the name field or a cell of the client table
ClientTexts == {"", " ", "Acme"}

\* the characters of each text
Chars ==
    [t \in ClientTexts |->
        CASE t = "" -> <<>>
          [] t = " " -> <<" ">>
          [] t = "Acme" -> <<"A", "c", "m", "e">>]

\* SELECT * FROM clients ; fetchall(): the rows in rowid order
list_clients(rows) ==
    LET ids == {r.id : r \in rows}
        nth(k) == CHOOSE r \in rows : Cardinality({i \in ids : i < r.id}) = k - 1
    IN  [k \in 1..Cardinality(rows) |-> nth(k)]

\* list_clients_gui: the table refilled, the id kept in the UserRole of column 0
list_clients_gui(rows) == list_clients(rows)

\* NewClientDialog.save_client with the texts of the four input fields
save_client(name, poc, phone, email) ==
    /\ Alive
    /\ IF client_exists(clients, name)
       THEN /\ ui' = [NoEvent EXCEPT !.ev = "save_client", !.text = name,
                                     !.warnings = 1]
            /\ last' = NoCall
            /\ UNCHANGED <<client_vars, case_vars, tool_vars, client_table>>
       ELSE /\ add_client(name, poc, phone, email)
            /\ ui' = [NoEvent EXCEPT !.ev = "save_client", !.text = name, !.calls = 1,
                                     !.warnings = IF last'.res = "ValueError" THEN 1 ELSE 0,
                                     !.reloaded = last'.res = "ok"]
            /\ client_table' = IF last'.res = "ok" THEN list_clients_gui(clients')
                               ELSE client_table
    /\ UNCHANGED <<case_table, connections>>

\* the text of column `column` of a row of the client table
ClientCell(r, column) ==
    CASE column = 0 -> r.name
      [] column = 1 -> r.point_of_contact
      [] column = 2 -> r.phone_number
      [] column = 3 -> r.email

\* handle_item_changed without the test for an empty value
ClientManager_handle_item_changed_NoEmptyTest(row, column, new_value) ==
    /\ Alive
    /\ row \in 1..Len(client_table)
    /\ new_value # ClientCell(client_table[row], column)
    /\ LET client_id == client_table[row].id
           ev == [NoEvent EXCEPT !.ev = "edit_client", !.row = row, !.col = column,
                                 !.text = new_value]
           arg(c) == IF column = c THEN new_value ELSE None
       IN  IF column = 0 /\ client_exists(clients, new_value)
           THEN /\ ui' = [ev EXCEPT !.warnings = 1, !.reloaded = TRUE]
                /\ client_table' = list_clients_gui(clients)
                /\ last' = NoCall
                /\ UNCHANGED <<client_vars, case_vars, tool_vars>>
           ELSE /\ update_client(client_id, arg(0), arg(1), arg(2), arg(3))
                /\ IF last'.res = "ValueError"
                   THEN /\ ui' = [ev EXCEPT !.calls = 1, !.warnings = 1,
                                            !.reloaded = TRUE]
                        /\ client_table' = list_clients_gui(clients')
                   ELSE /\ ui' = [ev EXCEPT !.calls = 1,
                                     !.exc = IF last'.res = "ok" THEN "" ELSE last'.res]
                        /\ client_table' =
                              [client_table EXCEPT ![row] =
                                  SetProvided(@, arg(0), arg(1), arg(2), arg(3))]
    /\ UNCHANGED <<case_table, connections>>

\* ClientManager.handle_item_changed(item): the user has committed an edit of
\* the cell (row, column) of the client table
ClientManager_handle_item_changed(row, column, new_value) ==
    /\ Alive
    /\ row \in 1..Len(client_table)
    /\ new_value # ClientCell(client_table[row], column)
    /\ LET client_id == client_table[row].id
           ev == [NoEvent EXCEPT !.ev = "edit_client", !.row = row, !.col = column,
                                 !.text = new_value]
           arg(c) == IF column = c THEN new_value ELSE None
       IN  IF strip(Chars[new_value]) = <<>>
           THEN /\ ui' = [ev EXCEPT !.warnings = 1, !.reloaded = TRUE]
                /\ client_table' = list_clients_gui(clients)
                /\ last' = NoCall
                /\ UNCHANGED <<client_vars, case_vars, tool_vars>>
           ELSE IF column = 0 /\ client_exists(clients, new_value)
           THEN /\ ui' = [ev EXCEPT !.warnings = 1, !.reloaded = TRUE]
                /\ client_table' = list_clients_gui(clients)
                /\ last' = NoCall
                /\ UNCHANGED <<client_vars, case_vars, tool_vars>>
           ELSE /\ update_client(client_id, arg(0), arg(1), arg(2), arg(3))
                /\ IF last'.res = "ValueError"
                   THEN /\ ui' = [ev EXCEPT !.calls = 1, !.warnings = 1,
                                            !.reloaded = TRUE]
                        /\ client_table' = list_clients_gui(clients')
                   ELSE /\ ui' = [ev EXCEPT !.calls = 1,
                                     !.exc = IF last'.res = "ok" THEN "" ELSE last'.res]
                        /\ client_table' =
                              [client_table EXCEPT ![row] =
                                  SetProvided(@, arg(0), arg(1), arg(2), arg(3))]
    /\ UNCHANGED <<case_table, connections>>

\* ClientManager.delete_client_gui with a row selected
delete_client_gui(row) ==
    /\ Alive
    /\ row \in 1..Len(client_table)
    /\ delete_client(client_table[row].id)
    /\ client_table' = list_clients_gui(clients')
    /\ ui' = [NoEvent EXCEPT !.ev = "delete_client", !.row = row, !.calls = 1,
                             !.reloaded = TRUE]
    /\ UNCHANGED <<case_table, connections>>

ClientGuiNext ==
    \/ \E name \in ClientTexts, poc \in NewFieldArgs, phone \in NewFieldArgs,
          email \in NewFieldArgs :
          save_client(name, poc, phone, email) /\ UNCHANGED <<app_vars, callers>>
    \/ \E row \in 1..MaxClientId, column \in 0..3, new_value \in ClientTexts :
          ClientManager_handle_item_changed(row, column, new_value) /\ UNCHANGED <<app_vars, callers>>
    \/ \E row \in 1..MaxClientId : delete_client_gui(row) /\ UNCHANGED <<app_vars, callers>>

(***************************************************************************)
(* Start-up: the import of settings, MainMenu.__init__ and __main__.       *)
(* config is "missing" (no config.yaml), "nopaths" (a file without the     *)
(* paths section), "default" (the three paths empty, as in the example     *)
(* file and as config_check calls the default state) or "set".             *)
(***************************************************************************)
ConfigStates == {"missing", "nopaths", "default", "set"}

NotStarted ==
    [pc |-> "import", found |-> "", printed |-> FALSE, message_box |-> FALSE,
     settings_open |-> FALSE, main_shown |-> FALSE, db_opened |-> FALSE]

\* all(Path(path) != Path("") for path in paths_to_check)
config_check(c) == c = "set"

\* the module code of settings: a missing config.yaml is announced and
\* created as a copy of config.yaml.example
settings_import ==
    /\ app.pc = "import"
    /\ IF config = "missing"
       THEN /\ config' = "default"
            /\ app' = [app EXCEPT !.pc = "init", !.found = config, !.printed = TRUE]
       ELSE /\ config' = config
            /\ app' = [app EXCEPT !.pc = "init", !.found = config]
    /\ UNCHANGED dialog

\* MainMenu.__init__ with _setup_ui called after the settings window as well
MainMenu_init_SetupAfterSettings ==
    /\ app.pc = "init"
    /\ IF config = "nopaths"
       THEN app' = [app EXCEPT !.pc = "exited", !.printed = TRUE]
       ELSE IF config_check(config)
       THEN app' = [app EXCEPT !.pc = "main", !.db_opened = TRUE]
       ELSE app' = [app EXCEPT !.pc = "main", !.message_box = TRUE,
                               !.settings_open = TRUE, !.db_opened = TRUE]
    /\ UNCHANGED <<config, dialog>>

\* MainMenu.__init__: load_config, then _setup_ui, which makes the
\* CaseDatabaseManager and the ClientManager and with them opens both
\* databases, or show_config_message, whose open_settings returns None;
\* indexing a configuration without paths is an uncaught exception, which
\* prints a traceback and ends the process
MainMenu_init ==
    /\ app.pc = "init"
    /\ IF config = "nopaths"
       THEN app' = [app EXCEPT !.pc = "exited", !.printed = TRUE]
       ELSE IF config_check(config)
       THEN app' = [app EXCEPT !.pc = "main", !.db_opened = TRUE]
       ELSE app' = [app EXCEPT !.pc = "main", !.message_box = TRUE,
                               !.settings_open = TRUE]
    /\ UNCHANGED <<config, dialog>>

\* __main__: the main window is shown if main_menu.config_check(), on the
\* configuration MainMenu.__init__ loaded; then app.exec()
main ==
    /\ app.pc = "main"
    /\ app' = [app EXCEPT !.pc = "exec",
                          !.main_shown = config_check(config) /\ app.db_opened]
    /\ UNCHANGED <<config, dialog>>

\* SettingsManagerGui.update_config_gui in the settings window that
\* show_config_message opened: the paths typed are written to config.yaml
update_config_gui(paths) ==
    /\ app.pc = "exec"
    /\ app.settings_open
    /\ config' = paths
    /\ UNCHANGED <<app, dialog>>

\* the user closes the settings window; with no window left app.exec()
\* returns and the process ends
CloseSettingsWindow ==
    /\ app.pc = "exec"
    /\ app.settings_open
    /\ app' = [app EXCEPT !.settings_open = FALSE,
                          !.pc = IF app.main_shown THEN "exec" ELSE "exited"]
    /\ UNCHANGED <<config, dialog>>

StartStep ==
    \/ settings_import /\ UNCHANGED data_vars
    \/ MainMenu_init /\ UNCHANGED data_vars
    \/ main /\ UNCHANGED data_vars
    \/ \E paths \in {"default", "set"} : update_config_gui(paths) /\ UNCHANGED data_vars
    \/ CloseSettingsWindow /\ UNCHANGED data_vars

\* closeEvent with the close refused while the thread has not stopped
closeEvent_Refuse ==
    /\ dialog.state = "open"
    /\ dialog' = IF thread # 0 /\ isRunning(thread)
                 THEN [state |-> "open", logged |-> TRUE]
                 ELSE [state |-> "closed", logged |-> FALSE]
    /\ UNCHANGED <<config, app>>

\* RunToolsDialog.closeEvent(event), seen at its end.  quit() asks an event
\* loop to return and the thread runs none; the GUI thread then sits in
\* wait(5000) while the worker goes on, so what the worker does during the
\* wait are steps before this one.  The wait has timed out, and the message
\* is printed, if the thread is still running; event.accept() in any case.
closeEvent ==
    /\ dialog.state = "open"
    /\ dialog' = [state |-> "closed", logged |-> thread # 0 /\ isRunning(thread)]
    /\ UNCHANGED <<config, app>>

(***************************************************************************)
(* Initial state and specifications.                                       *)
(***************************************************************************)
InitRest ==
    /\ clients = {}
    /\ next_client_id = 1
    /\ last = NoCall
    /\ run = [r \in RunIds |-> NoRun]
    /\ nruns = 0
    /\ thread = 0
    /\ sigq = <<>>
    /\ status_label = "Idle"
    /\ progress_bar = 0
    /\ output_text = <<>>
    /\ case_table = <<>>
    /\ connections = 1
    /\ client_table = <<>>
    /\ ui = NoEvent
    /\ dialog = [state |-> "open", logged |-> FALSE]
    /\ callers = [c \in Callers |-> NoAddClient]

\* a new installation: no case, no folder
InitData ==
    /\ cases = {}
    /\ next_case_id = 1
    /\ dirs = {}
    /\ base_exists = FALSE
    /\ InitRest

\* the application as a whole
Started ==
    [pc |-> "exec", found |-> "set", printed |-> FALSE, message_box |-> FALSE,
     settings_open |-> FALSE, main_shown |-> TRUE, db_opened |-> TRUE]

\* the main window is up: the configuration was complete at the start
Init ==
    /\ InitData
    /\ config = "set"
    /\ app = Started

\* the process has just been started
AppInit ==
    /\ InitData
    /\ config \in ConfigStates
    /\ app = NotStarted

\* calls on a CaseDatabaseManager with no window attached
CaseNext ==
    \/ \E case_name \in CaseNameArgs, case_type \in CaseTypes, client \in ClientArgs,
          date \in Months :
          setup_case_folder(case_name, case_type, client, date) /\ UNCHANGED view_vars
    \/ \E case_number \in Names : delete_case(case_number) /\ UNCHANGED view_vars
    \/ \E old \in Names, new \in Names : rename_case(old, new) /\ UNCHANGED view_vars

CaseSpec == Init /\ [][CaseNext]_vars

\* The table after 99 calls setup_case_folder(None, "Person", "") in one
\* month: the numbers 01..99 of the month, a folder for each.
FullMonthInit ==
    /\ \E date \in Months :
          /\ cases = {[id |-> i, case_number |-> CaseNumberOf(date, i),
                       case_type |-> "Person", client_id |-> "",
                       created_at |-> date * 100 + i] : i \in 1..LastCaseIndex}
          /\ dirs = {NewCaseFolder(CaseNumberOf(date, i), i, "Person") :
                       i \in 1..LastCaseIndex}
    /\ next_case_id = LastCaseIndex + 1
    /\ base_exists = TRUE
    /\ InitRest
    /\ config = "set"
    /\ app = Started

\* case numbers a caller passes to delete_case in such a month
FullMonthNames ==
    {CaseNumberOf(date, i) : date \in Months, i \in {1, 2, 50, 98, LastCaseIndex}}
        \cup {""}

\* new cases asked for and cases deleted in a month whose numbers are used up
FullMonthNext ==
    \/ \E case_name \in CaseNameArgs, case_type \in CaseTypes, client \in ClientArgs,
          date \in Months :
          setup_case_folder(case_name, case_type, client, date) /\ UNCHANGED view_vars
    \/ \E case_number \in FullMonthNames :
          delete_case(case_number) /\ UNCHANGED view_vars

FullMonthSpec == FullMonthInit /\ [][FullMonthNext]_vars

\* calls on the database methods of a ClientManager, its table left aside
ClientNext ==
    \/ \E name \in ClientNames, poc \in NewFieldArgs, phone \in NewFieldArgs,
          email \in NewFieldArgs :
          add_client(name, poc, phone, email) /\ UNCHANGED view_vars
    \/ \E client_id \in 1..MaxClientId, name \in ClientNames \cup {None},
          poc \in UpdFieldArgs, phone \in UpdFieldArgs, email \in UpdFieldArgs :
          update_client(client_id, name, poc, phone, email) /\ UNCHANGED view_vars
    \/ \E client_id \in 1..MaxClientId : delete_client(client_id) /\ UNCHANGED view_vars

ClientSpec == Init /\ [][ClientNext]_vars

\* add_client called through two ClientManager objects at a time, and
\* delete_client
ClientRaceNext ==
    \/ \E c \in Callers, name \in ClientNames :
          AddClientCheck(c, name)
             /\ UNCHANGED <<case_vars, tool_vars, gui_vars, app_vars>>
    \/ \E c \in Callers, poc \in NewFieldArgs :
          AddClientFinish(c, poc, poc, poc)
             /\ UNCHANGED <<case_vars, tool_vars, gui_vars, app_vars>>
    \/ \E client_id \in 1..MaxClientId : delete_client(client_id) /\ UNCHANGED view_vars

ClientRaceSpec == Init /\ [][ClientRaceNext]_vars

ToolNext ==
    \/ on_run_button_clicked /\ UNCHANGED view_vars
    \/ on_cancel_button_clicked /\ UNCHANGED view_vars
    \/ DeliverSignal /\ UNCHANGED view_vars
    \/ \E r \in RunIds : WorkerStep(r) /\ UNCHANGED view_vars
    \/ \E r \in RunIds : ProcStep(r) /\ UNCHANGED view_vars

CaseGuiSpec == Init /\ [][CaseGuiNext]_vars

\* the application from its start: the case manager is the view the main
\* window opens with
AppNext ==
    \/ StartStep
    \/ CaseGuiNext

AppSpec == AppInit /\ [][AppNext]_vars

ClientGuiSpec == Init /\ [][ClientGuiNext]_vars

\* names given to clients where cases refer to them
RefClientNames == {"Acme", "Bolt"}

\* NewCaseDialog.populate_clients_dropdown and get_values: the neutral entry
\* and the name of every client in the clients table
ClientChoices == {""} \cup {c.name : c \in clients}

\* Cases made with a client picked in the New Case dialog, next to the
\* operations of the client manager and CaseDatabaseManager.update_client.
CaseClientNext ==
    \/ \E case_type \in CaseTypes, client \in ClientChoices, date \in Months :
          create_case(case_type, client, date) /\ UNCHANGED <<app_vars, callers>>
    \/ \E name \in RefClientNames, poc \in NewFieldArgs :
          add_client(name, poc, poc, poc) /\ UNCHANGED view_vars
    \/ \E client_id \in 1..MaxClientId, name \in RefClientNames :
          update_client(client_id, name, None, None, None) /\ UNCHANGED view_vars
    \/ \E client_id \in 1..MaxClientId : delete_client(client_id) /\ UNCHANGED view_vars
    \/ \E case_number \in Names, new_client \in RefClientNames :
          CaseDatabaseManager_update_client(case_number, new_client)
             /\ UNCHANGED view_vars

CaseClientSpec == Init /\ [][CaseClientNext]_vars

ToolSpec == Init /\ [][ToolNext]_vars

\* The Run Tools dialog with its close button, followed until the dialog is
\* closed.  A subprocess blocked on stderr is, for all the dialog and the
\* worker can see, a running one that writes no more: ProcBlockOnStderr is
\* left to the specifications with fairness.
CloseNext ==
    \/ dialog.state = "open" /\ on_run_button_clicked /\ UNCHANGED view_vars
    \/ dialog.state = "open" /\ on_cancel_button_clicked /\ UNCHANGED view_vars
    \/ dialog.state = "open" /\ DeliverSignal /\ UNCHANGED view_vars
    \/ \E r \in RunIds : dialog.state = "open" /\ WorkerStep(r) /\ UNCHANGED view_vars
    \/ \E r \in RunIds :
          /\ dialog.state = "open"
          /\ ProcWriteLine(r)
          /\ UNCHANGED <<nruns, thread, sigq, dialog_vars, case_vars, client_vars,
                         last, view_vars>>
    \/ \E r \in RunIds :
          /\ dialog.state = "open"
          /\ ProcExit(r)
          /\ UNCHANGED <<nruns, thread, sigq, dialog_vars, case_vars, client_vars,
                         last, view_vars>>
    \/ closeEvent /\ UNCHANGED data_vars

CloseSpec == Init /\ [][CloseNext]_vars

\* The scheduler runs every thread and process that can take a step, and the
\* Qt event loop delivers queued signals; clicks are under no obligation.
ToolFairSpec ==
    /\ ToolSpec
    /\ \A r \in RunIds :
          /\ WF_vars(WorkerStep(r) /\ UNCHANGED view_vars)
          /\ WF_vars(ProcStep(r) /\ UNCHANGED view_vars)
    /\ WF_vars(DeliverSignal /\ UNCHANGED view_vars)

(***************************************************************************)
(* Properties.                                                             *)
(***************************************************************************)
\* the case numbers YYMM-01 .. YYMM-99 of each month
MonthNumbers ==
    [date \in Months |-> [n \in 1..LastCaseIndex |-> CaseNumberOf(date, n)]]

NumberTaken(rows, number) == \E r \in rows : r.case_number = number

\* C1: whenever setup_case_folder runs and some number YYMM-01..YYMM-99 of the
\* current month is unused, it inserts exactly one row and that row carries
\* the smallest unused number, whatever creates, renames and deletes came
\* before.
C1_SmallestUnusedNumber ==
    [][(/\ last'.op = "setup_case_folder"
        /\ \E n \in 1..LastCaseIndex : ~NumberTaken(cases, MonthNumbers[last'.date][n])) =>
         /\ Cardinality(cases' \ cases) = 1
         /\ cases \subseteq cases'
         /\ \A r \in cases' \ cases :
               /\ last'.cn = r.case_number
               /\ \E n \in 1..LastCaseIndex :
                     /\ r.case_number = MonthNumbers[last'.date][n]
                     /\ ~NumberTaken(cases, MonthNumbers[last'.date][n])
                     /\ \A m \in 1..(n - 1) :
                           NumberTaken(cases, MonthNumbers[last'.date][m])]_vars

\* a create reused 2611-01 although an older row holds the higher 2611-02
C1_Witness ==
    /\ last.op = "setup_case_folder"
    /\ last.res = "created"
    /\ last.cn = "2611-01"
    /\ \E r \in cases : r.case_number = "2611-02" /\ r.id < last.id
    /\ \E r \in cases : r.case_number = "2611-01" /\ r.id = last.id

\* C2: rename_case(old, new) with a row of case_number = new in the table
\* fails with ValueError and leaves the cases table and the directories on
\* disk as they were.
C2_RenameToExistingRefused ==
    [][(last'.op = "rename_case" /\ case_number_exists(cases, last'.cn2)) =>
         /\ last'.res = "ValueError"
         /\ UNCHANGED case_vars]_vars

\* a rename of an existing case (with its directory) to another existing
\* case's number was refused
C2_Witness ==
    /\ last.op = "rename_case"
    /\ last.res = "ValueError"
    /\ last.cn # last.cn2
    /\ case_number_exists(cases, last.cn)
    /\ case_number_exists(cases, last.cn2)
    /\ last.cn \in DirNames

\* C3: after delete_case(c) for an existing case c, no row has case_number c
\* and the directory that was created for that case is gone.
C3_DeleteRemovesRowAndDirectory ==
    [][last'.op = "delete_case" =>
         \A r \in cases : r.case_number = last'.cn =>
             /\ ~case_number_exists(cases', last'.cn)
             /\ \A d \in dirs' : d.owner # r.id]_vars

\* C4: add_client and update_client with a name that some client row already
\* has raise ValueError and leave the clients table unchanged.
C4_DuplicateClientNameRefused ==
    [][(last'.op \in {"add_client", "update_client"}
        /\ client_exists(clients, last'.name)) =>
         /\ last'.res = "ValueError"
         /\ UNCHANGED client_vars]_vars

\* C5: no two rows of the cases table have the same case_number.
C5_CaseNumbersUnique ==
    \A r1, r2 \in cases : r1.case_number = r2.case_number => r1 = r2

\* two rows are in the table and a rename has just changed one of them
C5_Witness ==
    /\ Cardinality(cases) >= 2
    /\ last.op = "rename_case"
    /\ last.res = "ok"
    /\ last.n = 1
    /\ case_number_exists(cases, last.cn2)

\* C6: no two rows of the clients table have the same name.
C6_ClientNamesUnique ==
    \A r1, r2 \in clients : r1.name = r2.name => r1 = r2

\* names a caller may give a case folder instead of the case number
CustomCaseNames == CaseNameArgs \ {None, ""}

\* C7: every row of the cases table has exactly one directory under the base
\* path, named after its case_number or its custom case name, and every case
\* directory belongs to a row of the table.
C7_RowsMirrorDirectories ==
    /\ \A r \in cases :
          /\ Cardinality({d \in dirs : d.owner = r.id}) = 1
          /\ \A d \in dirs : d.owner = r.id =>
                d.name = r.case_number \/ d.name \in CustomCaseNames
    /\ \A d \in dirs : \E r \in cases : r.id = d.owner

\* C8: at most one worker thread is running and at most one subprocess is
\* alive at any time.
C8_SingleWorker ==
    /\ Cardinality({r \in RunIds : isRunning(r)}) <= 1
    /\ Cardinality({r \in RunIds : run[r].proc \in {"running", "blocked"}}) <= 1

\* C9 as stated: once cancel() has set the flag of a run, that run relays no
\* further output line.
C9_NoRelayAfterCancel ==
    [][\A r \in RunIds :
          run[r].cancelled => run'[r].relayed = run[r].relayed]_vars

\* C9 amended: once cancel() has set the flag of a run, the only line that run
\* may still relay is the one whose flag check had already passed; a line
\* whose check comes after the flag was set is never yielded: on it the loop
\* calls terminate(), the subprocess is no longer alive, and the loop ends.
C9_CheckedAfterCancelNeverRelayed ==
    [][\A r \in RunIds : run[r].cancelled =>
          /\ run'[r].relayed # run[r].relayed => run[r].pc = "yield"
          /\ run[r].pc # "yield" => run'[r].pc # "yield"
          /\ (run[r].pc = "check" /\ run'[r].pc # "check") =>
                /\ run'[r].pc = "after_loop"
                /\ run'[r].terminate_called
                /\ run'[r].proc \notin {"running", "blocked"}
                /\ run'[r].relayed = run[r].relayed]_vars

\* a cancelled run read a line, terminated its subprocess and left the loop
\* with that line unrelayed
C9_Witness ==
    \E r \in RunIds :
        /\ run[r].cancelled
        /\ run[r].terminate_called
        /\ run[r].proc = "terminated"
        /\ run[r].pc \in {"after_loop", "done"}
        /\ Len(run[r].relayed) < run[r].written

\* C10: whenever a run has been cancelled, its subprocess eventually is no
\* longer alive and its worker thread eventually finishes.
C10_CancelEventuallyStops ==
    \A r \in RunIds :
        run[r].cancelled ~>
            (run[r].proc \notin {"running", "blocked"} /\ run[r].pc = "done")

\* a line as readline returns it, without its line terminator
chomp(l) ==
    IF l # <<>> /\ l[Len(l)] = "\n" THEN SubSeq(l, 1, Len(l) - 1) ELSE l

\* s is l with the whitespace at its two ends taken away and nothing else
IsStripOf(s, l) ==
    \E i \in 0..Len(l) : \E j \in i..Len(l) :
        /\ s = SubSeq(l, i + 1, j)
        /\ \A k \in 1..i : l[k] \in Whitespace
        /\ \A k \in (j + 1)..Len(l) : l[k] \in Whitespace
        /\ i < j => (l[i + 1] \notin Whitespace /\ l[j] \notin Whitespace)

C12_DuplicateCaseNumberWarnedAndReset ==
    [][(/\ ui'.ev = "edit_case"
        /\ ui'.col = 0
        /\ case_number_exists(cases, ui'.text)) =>
         /\ ui'.warnings >= 1
         /\ ui'.exc = ""
         /\ cases' = cases
         /\ case_table'[ui'.row].number = ui'.shown]_vars

\* the process was started without a complete configuration
Unconfigured == app.found \in {"missing", "nopaths", "default"}

\* C13 as stated: started without a complete configuration, the program
\* prints a message and its process exits: it never comes to run the event
\* loop, and it never opens the case or client databases.
C13_MissingConfigPrintsAndExits ==
    Unconfigured =>
        /\ app.pc \notin {"main", "exec"}
        /\ app.pc = "exited" => app.printed
        /\ ~app.db_opened

\* C13 amended: started without a complete configuration, the program never
\* opens the case or client databases and never shows the main window, also
\* after the settings have been saved.  It prints a message if and only if
\* config.yaml was missing (and is then created from the example) or holds no
\* paths (the traceback); only in the latter case does the process exit by
\* itself.  With the paths empty it shows a message box and the settings
\* window and runs the event loop until that window is closed.
C13_MissingConfigNeverOpensDatabases ==
    Unconfigured =>
        /\ ~app.db_opened
        /\ ~app.main_shown
        /\ app.pc # "init" => (app.printed <=> app.found \in {"missing", "nopaths"})
        /\ app.found = "nopaths" => app.pc \in {"init", "exited"}
        /\ (app.found # "nopaths" /\ app.pc \in {"main", "exec", "exited"}) =>
              app.message_box
        /\ (app.found # "nopaths" /\ app.pc \in {"main", "exec"}) => app.settings_open
        /\ (app.found # "nopaths" /\ app.pc = "exited") => ~app.settings_open

\* started with the paths empty, the program runs its event loop with the
\* settings window open and the paths have been saved there: the databases
\* are still unopened
C13_Witness ==
    /\ app.found = "default"
    /\ app.pc = "exec"
    /\ app.settings_open
    /\ config = "set"
    /\ ~app.db_opened

\* C14: the Run Tools dialog can be closed in every state, whether or not a
\* worker thread is running, and closing it ends with the close event
\* accepted: when the thread is still running at the end of the wait the
\* message is logged and nothing else is done (the thread, its runner and its
\* subprocess are left as they are, nothing is raised), and the dialog is
\* closed all the same.
C14_CloseAlwaysAccepted ==
    [][dialog.state = "open" =>
          /\ ENABLED (closeEvent /\ UNCHANGED data_vars)
          /\ dialog' # dialog =>
                /\ dialog'.state = "closed"
                /\ dialog'.logged <=> (thread # 0 /\ isRunning(thread))
                /\ UNCHANGED <<tool_vars, ui>>]_vars

\* the dialog was closed while its worker thread was running: the message
\* was logged, the dialog is closed and the thread is still running
C14_Witness ==
    /\ dialog.state = "closed"
    /\ dialog.logged
    /\ thread # 0
    /\ isRunning(thread)

(***************************************************************************)
(* C15: after a successful setup_case_folder the case directory contains   *)
(* exactly Associates, Audio, Documents, Other and Social_Media, plus      *)
(* Domains, Executives and Network if and only if the case type is         *)
(* Company, and Social_Media contains one subfolder per platform of        *)
(* SOCIAL_MEDIA_FOLDERS for every case type.                               *)
(***************************************************************************)
FixedSubfolders == {"Associates", "Audio", "Documents", "Other", "Social_Media"}

CompanySubfolders == {"Domains", "Executives", "Network"}

Platforms ==
    {"Discord", "Facebook", "Instagram", "LinkedIn", "Reddit", "Signal",
     "Snapchat", "Telegram", "TikTok", "Twitter", "WhatsApp", "YouTube"}

\* the directory the last setup_case_folder made, with the type it was given
MadeBySetup(d, r) ==
    /\ last.op = "setup_case_folder" /\ last.res = "created"
    /\ d \in dirs /\ d.owner = last.id
    /\ r \in cases /\ r.id = last.id

WellFormedCaseNumbers ==
    {CaseNumberOf(yy * 100 + mm, nn) : yy \in 0..99, mm \in 1..12, nn \in 1..LastCaseIndex}

C16_CaseNumbersWellFormed ==
    \A r \in cases : r.case_number \in WellFormedCaseNumbers

(***************************************************************************)
(* C17: the client reference of a case is an optional foreign key: in      *)
(* every reachable state each case's client reference is empty or NULL or  *)
(* identifies a client row that currently exists; after delete_client or   *)
(* a client rename no case is left referring to a client that no longer    *)
(* exists.  The column holds the client name the New Case dialog returns.  *)
(***************************************************************************)
C17_ClientReferenceExists ==
    \A r \in cases :
        r.client_id \in {"", None} \/ \E c \in clients : c.name = r.client_id

(***************************************************************************)
(* C18: CaseDatabaseManager.update_client(case_number, new_client) updates *)
(* the client of the case with that number: afterwards the row's client    *)
(* reference equals new_client, and editing the Client cell of a case in   *)
(* the table persists the new value to the database.                       *)
(***************************************************************************)
C18_UpdateClientPersists ==
    [][last'.op = "CaseDatabaseManager.update_client"
          /\ case_number_exists(cases, last'.cn) =>
             /\ last'.res = "ok"
             /\ ui'.exc = ""
             /\ \E r \in cases' : r.case_number = last'.cn /\ r.client_id = last'.name]_vars

(***************************************************************************)
(* C19: when all 99 case numbers YYMM-01..YYMM-99 of the current month are *)
(* already present in the cases table, setup_case_folder reports that no   *)
(* case number is available and returns without inserting a row and        *)
(* without creating any directory.                                         *)
(***************************************************************************)
C19_FullMonthRefused ==
    [][last'.op = "setup_case_folder" /\ MonthFull(cases, last'.date) =>
          /\ last'.res = "no_number"
          /\ UNCHANGED <<cases, dirs, base_exists, next_case_id>>]_vars

C19_Witness ==
    /\ last.op = "setup_case_folder" /\ last.res = "no_number"
    /\ MonthFull(cases, last.date)
    /\ Cardinality(cases) = LastCaseIndex

(***************************************************************************)
(* C20: a client field edited in the client table to an empty or           *)
(* whitespace-only value is rejected: a warning is shown, the table is     *)
(* reloaded from the database, and no client row is modified.              *)
(***************************************************************************)
\* the text has no character other than blanks
BlankText(text) == \A k \in DOMAIN Chars[text] : Chars[text][k] = " "

C20_BlankClientEditRejected ==
    [][ui'.ev = "edit_client" /\ BlankText(ui'.text) =>
          /\ ui'.warnings = 1
          /\ ui'.calls = 0 /\ ui'.exc = ""
          /\ ui'.reloaded /\ client_table' = list_clients_gui(clients)
          /\ clients' = clients]_vars

\* a phone number was edited to a blank: the warning was shown and the table
\* shows the row of the database again, which still has the phone number
C20_Witness ==
    /\ ui.ev = "edit_client" /\ ui.text = " " /\ ui.col = 2
    /\ ui.warnings = 1 /\ ui.reloaded
    /\ \E r \in clients : r.phone_number # " " /\ client_table[ui.row] = r

(***************************************************************************)
(* C21: update_client(client_id, ...) updates only the fields whose        *)
(* arguments are provided (not None) and only the row with id = client_id: *)
(* every omitted field of that client and every field of every other       *)
(* client is unchanged, for every combination of provided arguments.       *)
(***************************************************************************)
\* row r2 is row r with the provided fields set, when the call went through,
\* and with the omitted fields as they were
OnlyProvidedChanged(r, r2, ok, name, poc, phone, email) ==
    /\ r2.id = r.id
    /\ r2.name = IF ok /\ name # None THEN name ELSE r.name
    /\ r2.point_of_contact = IF ok /\ poc # None THEN poc ELSE r.point_of_contact
    /\ r2.phone_number = IF ok /\ phone # None THEN phone ELSE r.phone_number
    /\ r2.email = IF ok /\ email # None THEN email ELSE r.email

\* the step left the rows of the other clients alone
OtherClientsKept(client_id) ==
    /\ {r \in clients : r.id # client_id} = {r \in clients' : r.id # client_id}
    /\ Cardinality(clients') = Cardinality(clients)

\* the step changed, in the row of client_id, at most the provided fields
UpdateClientFrame(client_id, name, poc, phone, email) ==
    \A r \in clients : r.id = client_id =>
       \E r2 \in clients' :
          OnlyProvidedChanged(r, r2, last'.res = "ok", name, poc, phone, email)

\* a step of update_client has the call's client_id and name in last'; no
\* step is a step of update_client with arguments that break the frame
C21_UpdateClientFrame ==
    [][last'.op = "update_client" =>
          /\ OtherClientsKept(last'.id)
          /\ \A poc \in UpdFieldArgs, phone \in UpdFieldArgs, email \in UpdFieldArgs :
                \/ UpdateClientFrame(last'.id, last'.name, poc, phone, email)
                \/ ~update_client(last'.id, last'.name, poc, phone, email)]_vars

\* one field of one client was updated: its other fields and the other client
\* are as add_client left them
C21_Witness ==
    /\ last.op = "update_client" /\ last.res = "ok" /\ last.name = None
    /\ \E r \in clients, o \in clients :
          /\ r.id = last.id /\ o.id # last.id
          /\ r.phone_number = "b" /\ r.point_of_contact = "a" /\ r.email = "a"
          /\ o.phone_number = "a" /\ o.point_of_contact = "a" /\ o.email = "a"

(***************************************************************************)
(* C22: a case is deleted from the GUI only after the user confirms the    *)
(* delete question: if the user answers No or Cancel, delete_case is not   *)
(* called and neither the cases table nor any directory changes.           *)
(***************************************************************************)
C22_DeleteOnlyAfterConfirm ==
    [][/\ \A row \in 1..MaxCaseId :
             MainGui_delete_case(row, FALSE) =>
                /\ last'.op # "delete_case"
                /\ UNCHANGED <<cases, dirs, base_exists, case_table>>
       /\ last'.op = "delete_case" =>
             \E row \in 1..MaxCaseId : MainGui_delete_case(row, TRUE)]_vars

\* the question was answered No: the case of the selected row is still in
\* the table and its folder is still there
C22_Witness ==
    /\ ui.ev = "delete_case" /\ ui.calls = 0 /\ last.op # "delete_case"
    /\ ui.row \in 1..Len(case_table) /\ case_table[ui.row].number = ui.shown
    /\ \E r \in cases : r.case_number = ui.shown
    /\ \E d \in dirs : d.name = ui.shown

(***************************************************************************)
(* C23: delete_case(c) affects only case c: for every case_number value c, *)
(* the empty string and a value that names no case folder included, no row *)
(* of another case is removed and no directory belonging to another case,  *)
(* nor the base directory itself, is removed.                              *)
(***************************************************************************)
\* the directory was made for a case that is in the table under another number
OfAnotherCase(d, c) == \E r \in cases : r.id = d.owner /\ r.case_number # c

C23_DeleteAffectsOnlyThatCase ==
    [][last'.op = "delete_case" =>
          /\ \A r \in cases : r.case_number # last'.cn => r \in cases'
          /\ \A d \in dirs : OfAnotherCase(d, last'.cn) => d \in dirs'
          /\ base_exists => base_exists']_vars

(***************************************************************************)
(* C24: a successful rename_case(old, new) changes only the case_number of *)
(* the row that had case_number = old (its id, case_type, client reference *)
(* and created_at, and all other rows, are unchanged), moves only that     *)
(* case's directory, and returns the number of rows updated: 1 when old    *)
(* exists, and 0 with the table and all directories unchanged when no case *)
(* has case_number = old.                                                  *)
(***************************************************************************)
C24_RenameAffectsOnlyThatCase ==
    [][last'.op = "rename_case" /\ last'.res = "ok" =>
          LET hit == {r \in cases : r.case_number = last'.cn}
          IN  /\ last'.n = IF hit # {} THEN 1 ELSE 0
              /\ cases' = (cases \ hit)
                             \cup {[r EXCEPT !.case_number = last'.cn2] : r \in hit}
              /\ \A d \in dirs : d.owner \notin {r.id : r \in hit} => d \in dirs'
              /\ hit = {} => dirs' = dirs]_vars

(***************************************************************************)
(* C25: once the user has clicked Cancel during a tool run, that run never *)
(* appears as completed: completed_signal is emitted only for a run whose  *)
(* cancellation flag was never set, so the dialog status never changes     *)
(* from Cancelled to Completed, and the progress bar is never set to 100,  *)
(* for a cancelled run, under every interleaving of the worker thread with *)
(* the GUI thread.                                                         *)
(***************************************************************************)
C25_CancelledRunNeverCompleted ==
    [][/\ \A r \in RunIds :
             run[r].pc = "emit_completed" /\ run'[r].pc = "done" => ~run[r].cancelled
       /\ nruns = 1 /\ run[1].cancelled /\ status_label = "Cancelled" =>
             status_label' # "Completed" /\ progress_bar' # 100]_vars

(***************************************************************************)
(* C26: editing a cell of the case table acts on the case displayed in the *)
(* edited row: the case number passed to rename_case or update_client as   *)
(* the case to change is the one shown in that row before the edit,        *)
(* whatever the table's sort order and whatever renames and deletes        *)
(* happened earlier.                                                       *)
(***************************************************************************)
C26_EditActsOnShownCase ==
    ui.ev = "edit_case" /\ ui.calls > 0 => ui.passed = ui.shown

(***************************************************************************)
(* C27: each edit of a case-table cell results in exactly one call of      *)
(* rename_case or update_client, however many edits were made before; in   *)
(* particular a rename to an unused case number succeeds without any       *)
(* duplicate-number warning being shown.                                   *)
(***************************************************************************)
C27_OneCallPerEdit ==
    [][ui'.ev = "edit_case" =>
          /\ ui'.calls = 1
          /\ ui'.col = 0 /\ ~case_number_exists(cases, ui'.text) => ui'.warnings = 0]_vars

(***************************************************************************)
(* C28: two add_client calls with the same name issued through two         *)
(* ClientManager objects or two application instances sharing clients.db,  *)
(* whose existence check (client_exists) and INSERT steps interleave,      *)
(* cannot both insert a row: at most one client with that name exists      *)
(* afterwards.                                                             *)
(***************************************************************************)
C28_ConcurrentAddsInsertOnce ==
    \A name \in ClientNames : Cardinality({r \in clients : r.name = name}) <= 1
====
